---- MODULE Spec2Model ----
(***************************************************************************)
(* Model of TacticalAnalyzer (src/src/analyzers/tactical_analyzer.py):     *)
(* one call of analyze_game_tactics, stepped at every engine request.      *)
(*                                                                         *)
(* The chess rules component and the engine are external.  A board is the  *)
(* sequence of moves pushed on it; the engine answers every request with a *)
(* score (or a principal variation), or raises.                            *)
(***************************************************************************)
EXTENDS Integers, Sequences, FiniteSets, TLC

(* ------------------------------ bounds --------------------------------- *)

\* longest game walked
MaxMoves == 3

\* most evaluated moves folded into one result
MaxEvals == 5

\* most missed tactics among them
MaxMissed == 1

\* most lifecycle operations a client makes on one analyzer
MaxOps == 4

\* most games in one batch
MaxGames == 3

\* most evaluation requests of one of two concurrent analyses
MaxRequests == 2

\* largest max_retries a connector is configured with
MaxRetries == 2

\* most games handed to the pattern analysis, and most blunders in one
MaxPatternGames == 2
MaxBlunders == 2

(* ------------------------- program constants --------------------------- *)

BLUNDER_THRESHOLD == 200
MISTAKE_THRESHOLD == 100
INACCURACY_THRESHOLD == 50
GOOD_MOVE_GAIN == 50
MISSED_TACTIC_GAP == 100
MATE_SCORE == 10000
OPENING_LAST == 15
ENDGAME_FIRST == 40

\* Config as imported (settings.py), with the two values the design names
\* but Config does not hold
DefaultConfig ==
    [blunder_threshold |-> BLUNDER_THRESHOLD,
     mistake_threshold |-> MISTAKE_THRESHOLD,
     inaccuracy_threshold |-> INACCURACY_THRESHOLD,
     good_move_threshold |-> GOOD_MOVE_GAIN,
     missed_tactic_threshold |-> MISSED_TACTIC_GAP]

\* a caller's configuration that changes every threshold
CustomConfig ==
    [blunder_threshold |-> 250,
     mistake_threshold |-> 120,
     inaccuracy_threshold |-> 30,
     good_move_threshold |-> 100,
     missed_tactic_threshold |-> 150]

Configs == {DefaultConfig, CustomConfig}

(* ------------------------------ inputs --------------------------------- *)

\* the game's mainline (uci), and for each ply a different move the engine
\* may prefer
GameMoves == <<"e2e4", "e7e5", "g1f3", "b8c6", "f1c4", "g8f6">>
OtherMoves == <<"d2d4", "c7c5", "b1c3", "g8f6", "d2d3", "f8c5">>

\* relative (side to move) scores the engine may report for the position
\* before the move, after the move, and after the engine's preferred move
BeforeScores == {-1, 0, 1}
AfterScores == {-50, 50, 100, 200, MATE_SCORE}
AltScores == {-MATE_SCORE, 0, 1}

Colors == {"white", "black"}

\* evaluation changes of the moves folded into a result
EvalChanges == {60, -60, 10, -220, 5}

(* ----------------------------- state ----------------------------------- *)

VARIABLES
    pc,              \* position inside analyze_game_tactics
    engine,          \* self.engine: 0 is None, otherwise the session number
    opens,           \* engine processes started so far
    closes,          \* engine.quit() calls so far
    engine_available,\* input: the executable can be launched
    pgn_ok,          \* input: read_game returns a game
    total_moves,     \* input: len(moves)
    player_color,    \* derived from the headers and player_name
    board,           \* the walker's main board (moves pushed, in order)
    move_num,        \* enumerate index of the move being walked
    position_before, \* board.copy() taken before an analyzed ply
    score_before,
    score_after,
    tactical_data,
    ret,             \* value being returned
    calls,           \* requests served by the engine, oldest first
    config,          \* the threshold configuration in force
    ops,             \* lifecycle operations a client made, oldest first
    batch,           \* a batch run over several games
    walkers,         \* concurrent analyses sharing one analyzer
    start_turn,      \* input: the side to move in the game's first position
    patterns,        \* a run of analyze_tactical_patterns
    request          \* a run of a connector's _make_request

vars == <<pc, engine, opens, closes, engine_available, pgn_ok, total_moves,
          player_color, board, move_num, position_before, score_before,
          score_after, tactical_data, ret, calls, config, ops, batch,
          walkers, start_turn, patterns, request>>

inputs == <<engine_available, pgn_ok, total_moves, player_color, config>>

\* state of the runs that are not a single analyze_game_tactics call
apart == <<start_turn, patterns, request>>

elsewhere == <<ops, batch, walkers, apart>>

\* outside the runs that use them: a game from the usual first position, no
\* pattern analysis, no request
NothingApart ==
    /\ start_turn = "white"
    /\ patterns = <<>>
    /\ request = <<>>

(* ----------------------------- helpers --------------------------------- *)

Range(s) == {s[i] : i \in 1..Len(s)}

\* the first k moves of the game
Mainline(k) == [i \in 1..k |-> GameMoves[i]]

\* the move at enumerate index k (0-based)
MoveAt(k) == GameMoves[k + 1]

\* return values: nothing yet, {} and a filled dictionary
NoResult == [kind |-> "none"]
EmptyResult == [kind |-> "empty"]

is_player_move_even(k, color) ==
    k % 2 = 0

\* the side to move after k plies from the first position (line 67:
\* game.board() starts from the game's own first position)
turn_after(start, k) ==
    IF k % 2 = 0 THEN start
    ELSE IF start = "white" THEN "black" ELSE "white"

\* lines 88-89
is_player_move(k, color) ==
    \/ (k % 2 = 0 /\ color = "white")
    \/ (k % 2 = 1 /\ color = "black")

NewTacticalData(color, n) ==
    [player_color |-> color,
     total_moves |-> n,
     blunders |-> <<>>,
     mistakes |-> <<>>,
     inaccuracies |-> <<>>,
     missed_tactics |-> <<>>,
     good_moves |-> <<>>,
     move_evaluations |-> <<>>]

(* ------------------------ engine lifecycle ----------------------------- *)

init_engine_swallow(e, can_start, fresh) ==
    IF e = 0 /\ can_start
    THEN [engine |-> fresh, raised |-> FALSE, started |-> TRUE]
    ELSE [engine |-> e, raised |-> FALSE, started |-> FALSE]

\* _init_engine: start the process unless a session is already held
init_engine(e, can_start, fresh) ==
    IF e = 0
    THEN IF can_start
         THEN [engine |-> fresh, raised |-> FALSE, started |-> TRUE]
         ELSE [engine |-> 0, raised |-> TRUE, started |-> FALSE]
    ELSE [engine |-> e, raised |-> FALSE, started |-> FALSE]

close_engine_unguarded(e) ==
    [engine |-> 0, quit |-> TRUE]

close_engine_leak(e) ==
    [engine |-> e, quit |-> FALSE]

\* _close_engine: quit and forget the session if there is one
close_engine(e) ==
    IF e # 0
    THEN [engine |-> 0, quit |-> TRUE]
    ELSE [engine |-> e, quit |-> FALSE]

engine_missing_unchecked(e) == FALSE

\* line 101: if not self.engine
engine_missing(e) == e = 0

(* ------------------------- scores and labels --------------------------- *)

\* line 109: the before score is the engine's relative score
relative_before(raw) == raw

relative_after_raw(raw) == raw

\* lines 119, 163: the after score is the negated relative score
relative_after(raw) == -raw

eval_change_swapped(after, before) == before - after

\* line 122
eval_change_of(after, before) == after - before

classify_strict(ec) ==
    IF ec < -config.blunder_threshold THEN "blunder"
    ELSE IF ec < -config.mistake_threshold THEN "mistake"
    ELSE IF ec < -config.inaccuracy_threshold THEN "inaccuracy"
    ELSE IF ec > GOOD_MOVE_GAIN THEN "good"
    ELSE "neutral"

\* lines 146-153: the list a move is appended to; the three error
\* thresholds are read from Config, the good-move gain is a literal
classify(ec) ==
    IF ec <= -config.blunder_threshold THEN "blunder"
    ELSE IF ec <= -config.mistake_threshold THEN "mistake"
    ELSE IF ec <= -config.inaccuracy_threshold THEN "inaccuracy"
    ELSE IF ec >= GOOD_MOVE_GAIN THEN "good"
    ELSE "neutral"

record_move_deferred(td, rec) == td

record_move_no_elif(td, rec) ==
    [td EXCEPT
        !.move_evaluations = Append(@, rec),
        !.blunders = IF rec.eval_change <= -config.blunder_threshold
                     THEN Append(@, rec) ELSE @,
        !.mistakes = IF rec.eval_change <= -config.mistake_threshold
                     THEN Append(@, rec) ELSE @,
        !.inaccuracies = IF rec.eval_change <= -config.inaccuracy_threshold
                         THEN Append(@, rec) ELSE @,
        !.good_moves = IF rec.eval_change >= GOOD_MOVE_GAIN
                       THEN Append(@, rec) ELSE @]

\* lines 143-153: append the record and file it under its label
record_move(td, rec) ==
    LET label == classify(rec.eval_change) IN
    [td EXCEPT
        !.move_evaluations = Append(@, rec),
        !.blunders = IF label = "blunder" THEN Append(@, rec) ELSE @,
        !.mistakes = IF label = "mistake" THEN Append(@, rec) ELSE @,
        !.inaccuracies = IF label = "inaccuracy" THEN Append(@, rec) ELSE @,
        !.good_moves = IF label = "good" THEN Append(@, rec) ELSE @]

MissedEntry(rec, score_best) ==
    [move_number |-> rec.move_number,
     move |-> rec.move,
     eval_before |-> rec.eval_before,
     eval_after |-> rec.eval_after,
     eval_change |-> rec.eval_change,
     best_move |-> rec.best_move,
     missed_eval |-> score_best,
     missed_opportunity |-> score_best - rec.eval_after]

is_missed_strict(score_best, after) == score_best - after > MISSED_TACTIC_GAP

\* line 165
is_missed(score_best, after) == score_best - after >= MISSED_TACTIC_GAP

check_missed_unlabelled(td, rec, score_best) ==
    IF is_missed(score_best, rec.eval_after) /\ classify(rec.eval_change) = "neutral"
    THEN [td EXCEPT !.missed_tactics = Append(@, MissedEntry(rec, score_best))]
    ELSE td

\* lines 165-170
check_missed(td, rec, score_best) ==
    IF is_missed(score_best, rec.eval_after)
    THEN [td EXCEPT !.missed_tactics = Append(@, MissedEntry(rec, score_best))]
    ELSE td

handler_data_unknown(td, mv) ==
    [td EXCEPT !.move_evaluations = Append(@, [move |-> mv, classification |-> "unknown"])]

\* lines 172-175: the handler leaves tactical_data as it is
handler_data(td, mv) == td

(* ------------------------------ accuracy ------------------------------- *)

\* line 202: move_eval.get('eval_change', 0)
GetEvalChange(r) == IF "eval_change" \in DOMAIN r THEN r.eval_change ELSE 0

RECURSIVE TotalAbsChange(_)
TotalAbsChange(evals) ==
    IF evals = <<>> THEN 0
    ELSE LET ec == GetEvalChange(Head(evals)) IN
         (IF ec < 0 THEN -ec ELSE ec) + TotalAbsChange(Tail(evals))

RECURSIVE TotalEvalLoss(_)
\* lines 200-204
TotalEvalLoss(evals) ==
    IF evals = <<>> THEN 0
    ELSE LET ec == GetEvalChange(Head(evals)) IN
         (IF ec < 0 THEN -ec ELSE 0) + TotalEvalLoss(Tail(evals))

\* accuracies are fractions num/den with den > 0
calculate_accuracy_unclamped(evals) ==
    IF evals = <<>> THEN [num |-> 0, den |-> 1]
    ELSE [num |-> 1000 * Len(evals) - TotalEvalLoss(evals), den |-> 10 * Len(evals)]

calculate_accuracy_per_loss(evals) ==
    IF evals = <<>> THEN [num |-> 0, den |-> 1]
    ELSE LET n == Cardinality({i \in 1..Len(evals) : GetEvalChange(evals[i]) < 0})
             raw == 1000 * n - TotalEvalLoss(evals)
             lower == IF raw < 0 THEN 0 ELSE raw
         IN IF n = 0 THEN [num |-> 100, den |-> 1]
            ELSE [num |-> lower, den |-> 10 * n]

\* _calculate_accuracy: min(100, max(0, 100 - (loss / n) / 10))
calculate_accuracy(evals) ==
    IF evals = <<>> THEN [num |-> 0, den |-> 1]
    ELSE LET n == Len(evals)
             raw == 1000 * n - TotalEvalLoss(evals)
             lower == IF raw < 0 THEN 0 ELSE raw
             upper == IF lower > 1000 * n THEN 1000 * n ELSE lower
         IN [num |-> upper, den |-> 10 * n]

\* lines 178-185
Summary(td) ==
    [total_blunders |-> Len(td.blunders),
     total_mistakes |-> Len(td.mistakes),
     total_inaccuracies |-> Len(td.inaccuracies),
     total_good_moves |-> Len(td.good_moves),
     total_missed_tactics |-> Len(td.missed_tactics),
     accuracy |-> calculate_accuracy(td.move_evaluations)]

(* ------------------------------ actions -------------------------------- *)

\* a call about to start, on a game whose first position has one of the
\* given sides to move
StartInit(turns) ==
    /\ pc = "call"
    /\ engine = 0
    /\ opens = 0
    /\ closes = 0
    /\ engine_available \in BOOLEAN
    /\ pgn_ok \in BOOLEAN
    /\ total_moves \in 0..MaxMoves
    /\ (~pgn_ok => total_moves = 0)
    /\ player_color \in Colors
    /\ board = <<>>
    /\ move_num = 0
    /\ position_before = <<>>
    /\ score_before = 0
    /\ score_after = 0
    /\ tactical_data = NewTacticalData("white", 0)
    /\ ret = NoResult
    /\ calls = <<>>
    /\ config = DefaultConfig
    /\ ops = <<>>
    /\ batch = <<>>
    /\ walkers = <<>>
    /\ start_turn \in turns
    /\ patterns = <<>>
    /\ request = <<>>

\* a game from the usual first position
Init == StartInit({"white"})

\* a game that may start from a set-up position with black to move
FenInit == StartInit(Colors)

\* the outer except (lines 189-191): return {} and go through finally
Abort ==
    /\ ret' = EmptyResult
    /\ pc' = "finally"

\* the move is legal on b only when b is the game position before it
Legal(b) == b = Mainline(move_num)

\* lines 58-59 and the outer except when the engine cannot be started
InitEngine ==
    /\ pc = "call"
    /\ LET r == init_engine(engine, engine_available, opens + 1) IN
        /\ engine' = r.engine
        /\ opens' = IF r.started THEN opens + 1 ELSE opens
        /\ IF r.raised
           THEN Abort
           ELSE pc' = "parse" /\ UNCHANGED ret
    /\ UNCHANGED elsewhere
    /\ UNCHANGED <<closes, inputs, board, move_num, position_before,
                   score_before, score_after, tactical_data, calls>>

\* lines 61-84
ParseGame ==
    /\ pc = "parse"
    /\ IF ~pgn_ok
       THEN /\ ret' = EmptyResult
            /\ pc' = "finally"
            /\ UNCHANGED <<board, move_num, tactical_data>>
       ELSE /\ board' = <<>>
            /\ move_num' = 0
            /\ tactical_data' = NewTacticalData(player_color, total_moves)
            /\ pc' = "loop"
            /\ UNCHANGED ret
    /\ UNCHANGED elsewhere
    /\ UNCHANGED <<engine, opens, closes, inputs, position_before,
                   score_before, score_after, calls>>

OpponentPly_pushed_twice ==
    /\ pc = "loop"
    /\ move_num < total_moves
    /\ ~is_player_move(move_num, player_color)
    /\ board' = Append(Append(board, MoveAt(move_num)), MoveAt(move_num))
    /\ \/ /\ move_num' = move_num + 1
          /\ UNCHANGED <<pc, ret>>
       \/ /\ ~Legal(board)
          /\ Abort
          /\ UNCHANGED move_num
    /\ UNCHANGED elsewhere
    /\ UNCHANGED <<engine, opens, closes, inputs, position_before,
                   score_before, score_after, tactical_data, calls>>

\* lines 87-94: a ply of the other side is pushed, not evaluated
OpponentPly ==
    /\ pc = "loop"
    /\ move_num < total_moves
    /\ ~is_player_move(move_num, player_color)
    /\ board' = Append(board, MoveAt(move_num))
    /\ \/ /\ move_num' = move_num + 1
          /\ UNCHANGED <<pc, ret>>
       \/ /\ ~Legal(board)
          /\ Abort
          /\ UNCHANGED move_num
    /\ UNCHANGED elsewhere
    /\ UNCHANGED <<engine, opens, closes, inputs, position_before,
                   score_before, score_after, tactical_data, calls>>

\* lines 96-97
BeginPlayerPly ==
    /\ pc = "loop"
    /\ move_num < total_moves
    /\ is_player_move(move_num, player_color)
    /\ position_before' = board
    /\ pc' = "before"
    /\ UNCHANGED elsewhere
    /\ UNCHANGED <<engine, opens, closes, inputs, board, move_num,
                   score_before, score_after, tactical_data, ret, calls>>

\* lines 172-175, entered with b as the main board: the move is pushed
\* (again, if it had been pushed already) and the walk goes on; pushing a
\* move that is not legal on b may raise, which ends the call
ExceptHandler(b) ==
    /\ board' = Append(b, MoveAt(move_num))
    /\ tactical_data' = handler_data(tactical_data, MoveAt(move_num))
    /\ \/ /\ move_num' = move_num + 1
          /\ pc' = "loop"
          /\ UNCHANGED ret
       \/ /\ ~Legal(b)
          /\ Abort
          /\ UNCHANGED move_num

\* entries of the engine log
Failed(kind, pos) == [ply |-> move_num, kind |-> kind, pos |-> pos, ok |-> FALSE]
Scored(kind, pos, raw) ==
    [ply |-> move_num, kind |-> kind, pos |-> pos, ok |-> TRUE, score |-> raw]
Suggested(kind, pos, pv) ==
    [ply |-> move_num, kind |-> kind, pos |-> pos, ok |-> TRUE, pv |-> pv]

\* lines 100-112: evaluate the position before the move, then push the move
EvalBefore ==
    /\ pc = "before"
    /\ IF engine_missing(engine)
       THEN /\ board' = Append(board, MoveAt(move_num))
            /\ move_num' = move_num + 1
            /\ pc' = "loop"
            /\ UNCHANGED <<score_before, tactical_data, ret, calls>>
       ELSE \/ /\ calls' = Append(calls, Failed("before", position_before))
               /\ ExceptHandler(board)
               /\ UNCHANGED score_before
            \/ \E raw \in BeforeScores :
                /\ calls' = Append(calls, Scored("before", position_before, raw))
                /\ score_before' = relative_before(raw)
                /\ \/ /\ board' = Append(board, MoveAt(move_num))
                      /\ pc' = "after"
                      /\ UNCHANGED <<move_num, tactical_data, ret>>
                   \/ /\ ~Legal(board)
                      /\ ExceptHandler(Append(board, MoveAt(move_num)))
    /\ UNCHANGED elsewhere
    /\ UNCHANGED <<engine, opens, closes, inputs, position_before, score_after>>

\* lines 114-122: evaluate the position after the move
EvalAfter ==
    /\ pc = "after"
    /\ \/ /\ calls' = Append(calls, Failed("after", board))
          /\ ExceptHandler(board)
          /\ UNCHANGED score_after
       \/ \E raw \in AfterScores :
           /\ calls' = Append(calls, Scored("after", board, raw))
           /\ score_after' = relative_after(raw)
           /\ pc' = "best"
           /\ UNCHANGED <<board, move_num, tactical_data, ret>>
    /\ UNCHANGED elsewhere
    /\ UNCHANGED <<engine, opens, closes, inputs, position_before, score_before>>

MoveAnalysis_from_zero(best_move) ==
    [move_number |-> move_num \div 2,
     move |-> MoveAt(move_num),
     eval_before |-> score_before,
     eval_after |-> score_after,
     eval_change |-> eval_change_of(score_after, score_before),
     best_move |-> best_move]

\* lines 131-141
MoveAnalysis(best_move) ==
    [move_number |-> (move_num \div 2) + 1,
     move |-> MoveAt(move_num),
     eval_before |-> score_before,
     eval_after |-> score_after,
     eval_change |-> eval_change_of(score_after, score_before),
     best_move |-> best_move]

\* the record of the ply being walked (the last one appended)
CurrentRecord == tactical_data.move_evaluations[Len(tactical_data.move_evaluations)]

\* lines 124-156: ask for the best move, build, append and label the record
FindBest ==
    /\ pc = "best"
    /\ \/ /\ calls' = Append(calls, Failed("best", position_before))
          /\ ExceptHandler(board)
       \/ \E pv \in {"None", MoveAt(move_num), OtherMoves[move_num + 1]} :
           /\ calls' = Append(calls, Suggested("best", position_before, pv))
           /\ \/ /\ tactical_data' = record_move(tactical_data, MoveAnalysis(pv))
                 /\ IF pv # "None" /\ pv # MoveAt(move_num)
                    THEN pc' = "alt" /\ UNCHANGED move_num
                    ELSE pc' = "loop" /\ move_num' = move_num + 1
                 /\ UNCHANGED <<board, ret>>
              \/ \* san() of a move that is not legal on position_before
                 /\ position_before # Mainline(move_num)
                 /\ ExceptHandler(board)
    /\ UNCHANGED elsewhere
    /\ UNCHANGED <<engine, opens, closes, inputs, position_before,
                   score_before, score_after>>

\* lines 157-170: evaluate the engine's move on a copy of position_before
EvalAlt ==
    /\ pc = "alt"
    /\ LET position_after_best == Append(position_before, CurrentRecord.best_move) IN
       \/ /\ calls' = Append(calls, Failed("alt", position_after_best))
          /\ ExceptHandler(board)
       \/ \E raw \in AltScores :
           /\ calls' = Append(calls, Scored("alt", position_after_best, raw))
           /\ tactical_data' = check_missed(tactical_data, CurrentRecord, relative_after(raw))
           /\ move_num' = move_num + 1
           /\ pc' = "loop"
           /\ UNCHANGED <<board, ret>>
    /\ UNCHANGED elsewhere
    /\ UNCHANGED <<engine, opens, closes, inputs, position_before,
                   score_before, score_after>>

\* lines 177-187
Summarize ==
    /\ pc = "loop"
    /\ move_num >= total_moves
    /\ ret' = [kind |-> "data", data |-> tactical_data, summary |-> Summary(tactical_data)]
    /\ pc' = "finally"
    /\ UNCHANGED elsewhere
    /\ UNCHANGED <<engine, opens, closes, inputs, board, move_num,
                   position_before, score_before, score_after, tactical_data,
                   calls>>

\* lines 192-193
Finally ==
    /\ pc = "finally"
    /\ LET r == close_engine(engine) IN
        /\ engine' = r.engine
        /\ closes' = IF r.quit THEN closes + 1 ELSE closes
    /\ pc' = "done"
    /\ UNCHANGED elsewhere
    /\ UNCHANGED <<opens, inputs, board, move_num, position_before,
                   score_before, score_after, tactical_data, ret, calls>>

Next ==
    \/ InitEngine
    \/ ParseGame
    \/ OpponentPly
    \/ BeginPlayerPly
    \/ EvalBefore
    \/ EvalAfter
    \/ FindBest
    \/ EvalAlt
    \/ Summarize
    \/ Finally

Spec == Init /\ [][Next]_vars

SpecFen == FenInit /\ [][Next]_vars


(* ------------------- folding evaluated moves into a result ------------- *)

\* the record of the k-th evaluated move of a game, with the given change
EvaluatedMove(k, ec) ==
    [move_number |-> k,
     move |-> "e2e4",
     eval_before |-> 0,
     eval_after |-> ec,
     eval_change |-> eval_change_of(ec, 0),
     best_move |-> "d2d4"]

FoldInit(cfgs) ==
    /\ pc = "fold"
    /\ engine = 0
    /\ opens = 0
    /\ closes = 0
    /\ engine_available = TRUE
    /\ pgn_ok = TRUE
    /\ total_moves = 0
    /\ player_color = "white"
    /\ board = <<>>
    /\ move_num = 0
    /\ position_before = <<>>
    /\ score_before = 0
    /\ score_after = 0
    /\ tactical_data = NewTacticalData("white", 0)
    /\ ret = NoResult
    /\ calls = <<>>
    /\ config \in cfgs
    /\ ops = <<>>
    /\ batch = <<>>
    /\ walkers = <<>>
    /\ NothingApart

\* the configuration as imported
AggInit == FoldInit({DefaultConfig})

\* a configuration the caller has set
CfgInit == FoldInit(Configs)

\* lines 143-170 for one evaluated move: append, label, and flag it when the
\* engine's move was better by the missed-tactic gap
FoldMove ==
    /\ pc = "fold"
    /\ Len(tactical_data.move_evaluations) < MaxEvals
    /\ \E ec \in EvalChanges, better \in BOOLEAN :
        LET rec == EvaluatedMove(Len(tactical_data.move_evaluations) + 1, ec)
            td == record_move(tactical_data, rec)
        IN IF better
           THEN /\ Len(tactical_data.missed_tactics) < MaxMissed
                /\ tactical_data' = check_missed(td, rec, rec.eval_after + MISSED_TACTIC_GAP)
           ELSE tactical_data' = td
    /\ UNCHANGED <<pc, engine, opens, closes, inputs, board, move_num,
                   position_before, score_before, score_after, ret, calls>>
    /\ UNCHANGED elsewhere

\* lines 177-187
FoldSummary ==
    /\ pc = "fold"
    /\ ret' = [kind |-> "data", data |-> tactical_data, summary |-> Summary(tactical_data)]
    /\ pc' = "folded"
    /\ UNCHANGED <<engine, opens, closes, inputs, board, move_num,
                   position_before, score_before, score_after, tactical_data,
                   calls>>
    /\ UNCHANGED elsewhere

AggNext ==
    \/ FoldMove
    \/ FoldSummary

SpecAgg == AggInit /\ [][AggNext]_vars

SpecCfg == CfgInit /\ [][AggNext]_vars


(* ------------------- an engine that does not answer -------------------- *)

\* lines 105-108, 115-118, 125-128, 159-162: engine.analyse is called with a
\* depth limit only, so nothing ends the wait for an answer that never comes
EngineHangs ==
    /\ pc \in {"before", "after", "best", "alt"}
    /\ ~engine_missing(engine)
    /\ pc' = "waiting"
    /\ UNCHANGED elsewhere
    /\ UNCHANGED <<engine, opens, closes, inputs, board, move_num,
                   position_before, score_before, score_after, tactical_data,
                   ret, calls>>

HangNext ==
    \/ Next
    \/ EngineHangs

\* every step the walker can take is taken in the end
SpecHang == Init /\ [][HangNext]_vars /\ WF_vars(Next)

\* the same walker with an engine that always answers
SpecAnswered == Spec /\ WF_vars(Next)

(* ------------------------- a cancelled analysis ------------------------ *)

interrupt_result_partial(td) == [kind |-> "raised", data |-> td]

\* a KeyboardInterrupt is no Exception: neither handler (lines 172, 189)
\* takes it, so the call ends by raising it and hands nothing back
interrupt_result(td) == [kind |-> "raised"]

\* an interrupt delivered between or during the evaluations of the walk;
\* control goes to the finally clause of lines 192-193
Cancel ==
    /\ pc \in {"parse", "loop", "before", "after", "best", "alt"}
    /\ ret' = interrupt_result(tactical_data)
    /\ pc' = "finally"
    /\ UNCHANGED elsewhere
    /\ UNCHANGED <<engine, opens, closes, inputs, board, move_num,
                   position_before, score_before, score_after, tactical_data,
                   calls>>

CancelNext ==
    \/ Next
    \/ Cancel

SpecCancel == Init /\ [][CancelNext]_vars

(* ---------------- the session operations, in any order ----------------- *)

\* what a client sees after an operation
Observed(op, outcome, held, e, o, c, log) ==
    [op |-> op, outcome |-> outcome, held |-> held,
     engine |-> e, opens |-> o, closes |-> c, requests |-> Len(log)]

SessionInit ==
    /\ pc = "client"
    /\ engine = 0
    /\ opens = 0
    /\ closes = 0
    /\ engine_available \in BOOLEAN
    /\ pgn_ok = TRUE
    /\ total_moves = 0
    /\ player_color = "white"
    /\ board = <<>>
    /\ move_num = 0
    /\ position_before = <<>>
    /\ score_before = 0
    /\ score_after = 0
    /\ tactical_data = NewTacticalData("white", 0)
    /\ ret = NoResult
    /\ calls = <<>>
    /\ config = DefaultConfig
    /\ ops = <<>>
    /\ batch = <<>>
    /\ walkers = <<>>
    /\ NothingApart

\* _init_engine, lines 31-39
ClientOpen ==
    /\ pc = "client"
    /\ Len(ops) < MaxOps
    /\ LET r == init_engine(engine, engine_available, opens + 1) IN
        /\ engine' = r.engine
        /\ opens' = IF r.started THEN opens + 1 ELSE opens
        /\ UNCHANGED <<closes, calls>>
        /\ ops' = Append(ops, Observed("open",
                     IF r.raised THEN "raised"
                     ELSE IF r.started THEN "started" ELSE "kept",
                     engine, r.engine,
                     IF r.started THEN opens + 1 ELSE opens, closes, calls))
    /\ UNCHANGED <<pc, inputs, board, move_num, position_before, score_before,
                   score_after, tactical_data, ret, batch, walkers, apart>>

\* the evaluation of lines 100-108: skipped with a warning when no session is
\* held, otherwise answered by the engine or raising into the handler
ClientEvaluate ==
    /\ pc = "client"
    /\ Len(ops) < MaxOps
    /\ IF engine_missing(engine)
       THEN /\ UNCHANGED calls
            /\ ops' = Append(ops, Observed("evaluate", "skipped", engine,
                                           engine, opens, closes, calls))
       ELSE \/ /\ calls' = Append(calls, Failed("before", board))
               /\ ops' = Append(ops, Observed("evaluate", "failed", engine,
                                              engine, opens, closes, calls'))
            \/ \E raw \in BeforeScores :
                /\ calls' = Append(calls, Scored("before", board, raw))
                /\ ops' = Append(ops, Observed("evaluate", "answered", engine,
                                               engine, opens, closes, calls'))
    /\ UNCHANGED <<pc, engine, opens, closes, inputs, board, move_num,
                   position_before, score_before, score_after, tactical_data,
                   ret, batch, walkers, apart>>

\* _close_engine, lines 41-45
ClientClose ==
    /\ pc = "client"
    /\ Len(ops) < MaxOps
    /\ LET r == close_engine(engine) IN
        /\ engine' = r.engine
        /\ closes' = IF r.quit THEN closes + 1 ELSE closes
        /\ UNCHANGED <<opens, calls>>
        /\ ops' = Append(ops, Observed("close",
                     IF r.quit THEN "quit" ELSE "nothing",
                     engine, r.engine, opens,
                     IF r.quit THEN closes + 1 ELSE closes, calls))
    /\ UNCHANGED <<pc, inputs, board, move_num, position_before, score_before,
                   score_after, tactical_data, ret, batch, walkers, apart>>

SessionNext ==
    \/ ClientOpen
    \/ ClientEvaluate
    \/ ClientClose

SpecSession == SessionInit /\ [][SessionNext]_vars

(* --------------------------- a batch of games -------------------------- *)

\* raw games as the API hands them over
GameKinds == {"good", "no_metadata", "no_pgn", "bad_pgn", "raises"}

Batches == UNION {[1..n -> GameKinds] : n \in 1..MaxGames}

\* game_parser.py lines 54-105: every failing path returns None
parse_chess_com_game(kind) ==
    IF kind = "good" THEN [kind |-> "parsed"] ELSE [kind |-> "none"]

is_truthy_always(x) == TRUE

\* `if parsed_game:` and `if game_tactics:`: None and {} are falsy
is_truthy(x) == x.kind \notin {"none", "empty"}

\* what analyze_game_tactics hands back: the data, or {} from the outer
\* handler (lines 189-191)
game_tactics_of(ok) ==
    IF ok THEN [kind |-> "data"] ELSE EmptyResult

BatchInit ==
    /\ pc = "batch"
    /\ engine = 0
    /\ opens = 0
    /\ closes = 0
    /\ engine_available = TRUE
    /\ pgn_ok = TRUE
    /\ total_moves = 0
    /\ player_color = "white"
    /\ board = <<>>
    /\ move_num = 0
    /\ position_before = <<>>
    /\ score_before = 0
    /\ score_after = 0
    /\ tactical_data = NewTacticalData("white", 0)
    /\ ret = NoResult
    /\ calls = <<>>
    /\ config = DefaultConfig
    /\ ops = <<>>
    /\ walkers = <<>>
    /\ NothingApart
    /\ \E games \in Batches :
        batch = [phase |-> "parse", games_data |-> games, i |-> 1,
                 parsed_games |-> <<>>, analyzed_games |-> <<>>,
                 warnings |-> <<>>]

batch_untouched ==
    UNCHANGED <<pc, engine, engine_available, pgn_ok, total_moves,
                player_color, board, move_num, position_before, score_before,
                score_after, tactical_data, ret, calls, config, ops, walkers, apart>>

\* one turn of the loop of parse_games_batch, game_parser.py lines 398-405
ParseOne ==
    /\ pc = "batch"
    /\ batch.phase = "parse"
    /\ batch.i <= Len(batch.games_data)
    /\ LET parsed_game == parse_chess_com_game(batch.games_data[batch.i]) IN
        batch' = IF is_truthy(parsed_game)
                 THEN [batch EXCEPT !.i = @ + 1,
                                    !.parsed_games = Append(@, batch.i)]
                 ELSE [batch EXCEPT !.i = @ + 1,
                                    !.warnings = Append(@,
                                        [game |-> batch.i, stage |-> "parse"])]
    /\ UNCHANGED <<opens, closes>>
    /\ batch_untouched

\* game_parser.py lines 407-408: the parsed games go to the analysis loop
ParseReturn ==
    /\ pc = "batch"
    /\ batch.phase = "parse"
    /\ batch.i > Len(batch.games_data)
    /\ batch' = [batch EXCEPT !.phase = "analyze", !.i = 1]
    /\ UNCHANGED <<opens, closes>>
    /\ batch_untouched

\* one turn of the loop of fix_tactical_analyzer.py lines 69-101: a result is
\* appended and the statistics that follow raise TypeError (an int plus a
\* list), which the handler of lines 100-101 reports; an empty result is
\* reported and dropped
AnalyzeOne ==
    /\ pc = "batch"
    /\ batch.phase = "analyze"
    /\ batch.i <= Len(batch.parsed_games)
    /\ \E ok \in BOOLEAN, started \in BOOLEAN :
        LET game == batch.parsed_games[batch.i]
            game_tactics == game_tactics_of(ok /\ started)
        IN  /\ opens' = IF started THEN opens + 1 ELSE opens
            /\ closes' = IF started THEN closes + 1 ELSE closes
            /\ batch' =
                IF is_truthy(game_tactics)
                THEN [batch EXCEPT !.i = @ + 1,
                        !.analyzed_games = Append(@,
                            [game |-> game, tactical_analysis |-> game_tactics]),
                        !.warnings = Append(@,
                            [game |-> game, stage |-> "statistics"])]
                ELSE [batch EXCEPT !.i = @ + 1,
                        !.warnings = Append(@,
                            [game |-> game, stage |-> "analysis"])]
    /\ batch_untouched

\* fix_tactical_analyzer.py lines 103-104: the loop is over
BatchReturn ==
    /\ pc = "batch"
    /\ batch.phase = "analyze"
    /\ batch.i > Len(batch.parsed_games)
    /\ batch' = [batch EXCEPT !.phase = "done"]
    /\ UNCHANGED <<opens, closes>>
    /\ batch_untouched

BatchNext ==
    \/ ParseOne
    \/ ParseReturn
    \/ AnalyzeOne
    \/ BatchReturn

SpecBatch == BatchInit /\ [][BatchNext]_vars

(* ------------- two analyses at once on one TacticalAnalyzer ------------ *)

Threads == {1, 2}

\* an entry of the shared log: what a thread did to which session
Did(t, kind, session) == [thread |-> t, kind |-> kind, session |-> session]

ConcInit ==
    /\ pc = "threads"
    /\ engine = 0
    /\ opens = 0
    /\ closes = 0
    /\ engine_available = TRUE
    /\ pgn_ok = TRUE
    /\ total_moves = 0
    /\ player_color = "white"
    /\ board = <<>>
    /\ move_num = 0
    /\ position_before = <<>>
    /\ score_before = 0
    /\ score_after = 0
    /\ tactical_data = NewTacticalData("white", 0)
    /\ ret = NoResult
    /\ calls = <<>>
    /\ config = DefaultConfig
    /\ ops = <<>>
    /\ batch = <<>>
    /\ NothingApart
    /\ \E n \in [Threads -> 1..MaxRequests] :
        walkers = [t \in Threads |-> [pc |-> "call", left |-> n[t]]]

conc_untouched ==
    UNCHANGED <<pc, engine_available, pgn_ok, total_moves, player_color,
                board, move_num, position_before, score_before, score_after,
                tactical_data, ret, config, ops, batch,
                apart>>

At(t, where) == pc = "threads" /\ walkers[t].pc = where

Goto(t, where) == walkers' = [walkers EXCEPT ![t].pc = where]

Spend(t, where) ==
    walkers' = [walkers EXCEPT ![t].pc = where, ![t].left = @ - 1]

\* line 33: if self.engine is None
CheckNone(t) ==
    /\ At(t, "call")
    /\ Goto(t, IF engine = 0 THEN "popen" ELSE "walk")
    /\ UNCHANGED <<engine, opens, closes, calls>>
    /\ conc_untouched

\* line 35: self.engine = popen_uci(...), whatever self.engine holds by now
Popen(t) ==
    /\ At(t, "popen")
    /\ engine' = opens + 1
    /\ opens' = opens + 1
    /\ calls' = Append(calls, Did(t, "open", opens + 1))
    /\ Goto(t, "walk")
    /\ UNCHANGED closes
    /\ conc_untouched

\* line 101: if not self.engine, with a request left to make
CheckEngine(t) ==
    /\ At(t, "walk")
    /\ walkers[t].left > 0
    /\ IF engine_missing(engine)
       THEN /\ calls' = Append(calls, Did(t, "skip", 0))
            /\ Spend(t, "walk")
       ELSE /\ UNCHANGED calls
            /\ Goto(t, "send")
    /\ UNCHANGED <<engine, opens, closes>>
    /\ conc_untouched

\* line 105: self.engine.analyse(...), on whatever self.engine holds by now;
\* on None the AttributeError goes to the handler of lines 172-175
Analyse(t) ==
    /\ At(t, "send")
    /\ calls' = Append(calls,
            IF engine = 0 THEN Did(t, "failed", 0)
            ELSE Did(t, "evaluate", engine))
    /\ Spend(t, "walk")
    /\ UNCHANGED <<engine, opens, closes>>
    /\ conc_untouched

\* lines 192-193 and 43: the walk is over, finally, if self.engine
CheckHeld(t) ==
    /\ At(t, "walk")
    /\ walkers[t].left = 0
    /\ Goto(t, IF engine = 0 THEN "done" ELSE "quit")
    /\ UNCHANGED <<engine, opens, closes, calls>>
    /\ conc_untouched

\* line 44: self.engine.quit(), on whatever self.engine holds by now
Quit(t) ==
    /\ At(t, "quit")
    /\ IF engine = 0
       THEN /\ Goto(t, "raised")
            /\ UNCHANGED <<closes, calls>>
       ELSE /\ Goto(t, "clear")
            /\ closes' = closes + 1
            /\ calls' = Append(calls, Did(t, "quit", engine))
    /\ UNCHANGED <<engine, opens>>
    /\ conc_untouched

\* line 45: self.engine = None
Clear(t) ==
    /\ At(t, "clear")
    /\ engine' = 0
    /\ Goto(t, "done")
    /\ UNCHANGED <<opens, closes, calls>>
    /\ conc_untouched

ConcNext ==
    \E t \in Threads :
        \/ CheckNone(t)
        \/ Popen(t)
        \/ CheckEngine(t)
        \/ Analyse(t)
        \/ CheckHeld(t)
        \/ Quit(t)
        \/ Clear(t)

SpecConc == ConcInit /\ [][ConcNext]_vars

(* ----------------------- patterns across games ------------------------- *)

\* move numbers around the two phase boundaries
MoveNumbers == {OPENING_LAST, OPENING_LAST + 1, ENDGAME_FIRST - 1, ENDGAME_FIRST}

\* the blunders of one analysis: records in game order, so with strictly
\* increasing move numbers
BlunderLists ==
    {bl \in UNION {[1..n -> MoveNumbers] : n \in 0..MaxBlunders} :
        \A a, b \in 1..Len(bl) : a < b => bl[a] < bl[b]}

\* a game as handed over: without a tactical analysis, or with one
PatternGames ==
    {[tactical_analysis |-> EmptyResult]} \cup
    {[tactical_analysis |-> [kind |-> "data", blunders |-> bl]] : bl \in BlunderLists}

\* a performance dictionary is {} or {'blunders': n}
NoCounts == [k \in {} |-> 0]

\* .get('blunders', 0)
GetBlunders(perf) == IF "blunders" \in DOMAIN perf THEN perf["blunders"] ELSE 0

AddBlunder(perf) == [k \in {"blunders"} |-> GetBlunders(perf) + 1]

phase_of_exclusive(move_number) ==
    IF move_number < OPENING_LAST THEN "opening"
    ELSE IF move_number > ENDGAME_FIRST THEN "endgame"
    ELSE "none"

\* lines 241-246: the dictionary a blunder is counted in, if any
phase_of(move_number) ==
    IF move_number <= OPENING_LAST THEN "opening"
    ELSE IF move_number >= ENDGAME_FIRST THEN "endgame"
    ELSE "none"

RECURSIVE CountBlunders(_, _)
\* lines 239-246 for one game's blunders
CountBlunders(p, blunders) ==
    IF blunders = <<>> THEN p
    ELSE LET phase == phase_of(Head(blunders))
             q == IF phase = "opening"
                  THEN [p EXCEPT !.opening_tactical_performance = AddBlunder(@)]
                  ELSE IF phase = "endgame"
                  THEN [p EXCEPT !.endgame_tactical_performance = AddBlunder(@)]
                  ELSE p
         IN CountBlunders(q, Tail(blunders))

PatternsInit ==
    /\ pc = "patterns"
    /\ engine = 0
    /\ opens = 0
    /\ closes = 0
    /\ engine_available = TRUE
    /\ pgn_ok = TRUE
    /\ total_moves = 0
    /\ player_color = "white"
    /\ board = <<>>
    /\ move_num = 0
    /\ position_before = <<>>
    /\ score_before = 0
    /\ score_after = 0
    /\ tactical_data = NewTacticalData("white", 0)
    /\ ret = NoResult
    /\ calls = <<>>
    /\ config = DefaultConfig
    /\ ops = <<>>
    /\ batch = <<>>
    /\ walkers = <<>>
    /\ start_turn = "white"
    /\ request = <<>>
    /\ \E games \in UNION {[1..n -> PatternGames] : n \in 0..MaxPatternGames} :
        patterns = [games_data |-> games, i |-> 1,
                    opening_tactical_performance |-> NoCounts,
                    endgame_tactical_performance |-> NoCounts]

patterns_untouched ==
    UNCHANGED <<engine, opens, closes, engine_available, pgn_ok, total_moves,
                player_color, board, move_num, position_before, score_before,
                score_after, tactical_data, calls, config, ops, batch,
                walkers, start_turn, request>>

\* lines 221-222: nothing to analyze
PatternsEmpty ==
    /\ pc = "patterns"
    /\ patterns.games_data = <<>>
    /\ ret' = EmptyResult
    /\ pc' = "patterned"
    /\ UNCHANGED patterns
    /\ patterns_untouched

\* one turn of the loop of lines 234-246
PatternsOfGame ==
    /\ pc = "patterns"
    /\ patterns.i <= Len(patterns.games_data)
    /\ LET tactical == patterns.games_data[patterns.i].tactical_analysis IN
        patterns' = IF ~is_truthy(tactical)
                    THEN [patterns EXCEPT !.i = @ + 1]
                    ELSE [CountBlunders(patterns, tactical.blunders)
                             EXCEPT !.i = @ + 1]
    /\ UNCHANGED <<pc, ret>>
    /\ patterns_untouched

\* line 249
PatternsReturn ==
    /\ pc = "patterns"
    /\ patterns.games_data # <<>>
    /\ patterns.i > Len(patterns.games_data)
    /\ ret' = [kind |-> "patterns",
               opening_tactical_performance |-> patterns.opening_tactical_performance,
               endgame_tactical_performance |-> patterns.endgame_tactical_performance]
    /\ pc' = "patterned"
    /\ UNCHANGED patterns
    /\ patterns_untouched

PatternsNext ==
    \/ PatternsEmpty
    \/ PatternsOfGame
    \/ PatternsReturn

SpecPatterns == PatternsInit /\ [][PatternsNext]_vars

(* --------------------- a connector's _make_request --------------------- *)

Platforms == {"chesscom", "lichess"}

\* what one HTTP attempt can come back with
Responses == {"200", "429", "404", "401", "500", "timeout", "failed"}

NoError == [error |-> "none"]

\* the APIError kept in last_error after an attempt that was answered with
\* another status, timed out or failed
api_error(response) == [error |-> "APIError", about |-> response]

Raised(err) == [kind |-> "raised", error |-> err.error, about |-> err.about]

RequestInit ==
    /\ pc = "request"
    /\ engine = 0
    /\ opens = 0
    /\ closes = 0
    /\ engine_available = TRUE
    /\ pgn_ok = TRUE
    /\ total_moves = 0
    /\ player_color = "white"
    /\ board = <<>>
    /\ move_num = 0
    /\ position_before = <<>>
    /\ score_before = 0
    /\ score_after = 0
    /\ tactical_data = NewTacticalData("white", 0)
    /\ ret = NoResult
    /\ calls = <<>>
    /\ config = DefaultConfig
    /\ ops = <<>>
    /\ batch = <<>>
    /\ walkers = <<>>
    /\ start_turn = "white"
    /\ patterns = <<>>
    /\ \E platform \in Platforms, retries \in 0..MaxRetries, cached \in BOOLEAN :
        request = [platform |-> platform, max_retries |-> retries,
                   cached |-> cached, attempt |-> 0, last_error |-> NoError,
                   responses |-> <<>>]

request_untouched ==
    UNCHANGED <<engine, opens, closes, engine_available, pgn_ok, total_moves,
                player_color, board, move_num, position_before, score_before,
                score_after, tactical_data, calls, config, ops, batch,
                walkers, start_turn, patterns>>

\* the cache holds a valid entry: it is returned without any attempt
RequestCached ==
    /\ pc = "request"
    /\ request.cached
    /\ ret' = [kind |-> "json"]
    /\ pc' = "requested"
    /\ UNCHANGED request
    /\ request_untouched

\* one turn of the retry loop
Attempt ==
    /\ pc = "request"
    /\ ~request.cached
    /\ request.attempt <= request.max_retries
    /\ \E response \in Responses :
        LET seen == [request EXCEPT !.responses = Append(@, response)] IN
        IF response = "200"
        THEN /\ ret' = [kind |-> "json"]
             /\ pc' = "requested"
             /\ request' = seen
        ELSE IF response = "429"
        THEN \* continue: the next attempt, last_error as it was
             /\ request' = [seen EXCEPT !.attempt = @ + 1]
             /\ UNCHANGED <<pc, ret>>
        ELSE IF response = "404"
        THEN /\ ret' = [kind |-> "null"]
             /\ pc' = "requested"
             /\ request' = seen
        ELSE IF response = "401" /\ request.platform = "lichess"
        THEN /\ ret' = [kind |-> "raised", error |-> "AuthenticationError",
                        about |-> response]
             /\ pc' = "requested"
             /\ request' = seen
        ELSE /\ request' = [seen EXCEPT !.attempt = @ + 1,
                                        !.last_error = api_error(response)]
             /\ UNCHANGED <<pc, ret>>
    /\ request_untouched

\* raised when the loop ran out with last_error never set
unset_error(responses) == [error |-> "APIError", about |-> "Request failed"]

\* all retries exhausted
Exhausted ==
    /\ pc = "request"
    /\ ~request.cached
    /\ request.attempt > request.max_retries
    /\ ret' = IF request.last_error # NoError
              THEN Raised(request.last_error)
              ELSE Raised(unset_error(request.responses))
    /\ pc' = "requested"
    /\ UNCHANGED request
    /\ request_untouched

RequestNext ==
    \/ RequestCached
    \/ Attempt
    \/ Exhausted

SpecRequest == RequestInit /\ [][RequestNext]_vars

(* ------------------------- reading the state --------------------------- *)

Records == Range(tactical_data.move_evaluations)

Missed == Range(tactical_data.missed_tactics)

\* the enumerate index of a game move
PlyOf(mv) == CHOOSE k \in 0..(Len(GameMoves) - 1) : GameMoves[k + 1] = mv

\* the engine's answers to the requests of one kind made for ply k
Answers(k, kind) == {c \in Range(calls) : c.ply = k /\ c.kind = kind /\ c.ok}

Failures == {c \in Range(calls) : ~c.ok}

HasRecord(evals, k) == \E r \in Range(evals) : r.move = MoveAt(k)

\* every request made for ply k was answered, the three the walker always
\* makes among them
FullyEvaluated(k) ==
    /\ \A kind \in {"before", "after", "best"} : Answers(k, kind) # {}
    /\ \A c \in Failures : c.ply # k

(* ------------------------------ claims --------------------------------- *)

\* C1: whenever an engine evaluation failed at some analyzed-player ply, the
\* call still returns a filled result with a summary, and every later
\* analyzed-player ply whose own evaluations all succeeded has a record in
\* move_evaluations.
C1_WalkSurvivesFailure ==
    (pc = "done" /\ Failures # {}) =>
        /\ ret.kind = "data"
        /\ \A k \in 0..(total_moves - 1) :
            ( /\ is_player_move(k, player_color)
              /\ \E c \in Failures : c.ply < k
              /\ FullyEvaluated(k) )
            => HasRecord(ret.data.move_evaluations, k)

C3_SessionClosedOnce ==
    /\ closes <= opens
    /\ opens <= closes + 1
    /\ (engine # 0) <=> (opens = closes + 1)
    /\ pc = "done" => (engine = 0 /\ closes = opens)

\* a call that ended through the outer except in the middle of the walk, with
\* its session opened once and closed once
C3_Witness ==
    /\ pc = "done"
    /\ opens = 1
    /\ closes = 1
    /\ ret.kind = "empty"
    /\ calls # <<>>

\* C4: when the engine cannot be started, no evaluation is requested, no
\* session is ever held, and the call returns the empty result without
\* parsing or walking the game.
C4_EngineUnavailable ==
    ~engine_available =>
        /\ calls = <<>>
        /\ engine = 0
        /\ opens = 0
        /\ pc \in {"call", "finally", "done"}
        /\ pc \in {"finally", "done"} => ret = EmptyResult

\* a returned call for a parseable game with moves and no engine
C4_Witness ==
    /\ pc = "done"
    /\ ~engine_available
    /\ pgn_ok
    /\ total_moves > 0
    /\ ret = EmptyResult

\* C5: in every record, eval_before is the engine's score of the position
\* before the move, unchanged, and eval_after is the negated engine score of
\* that position with the played move pushed, for either colour.
C5_Perspective ==
    \A r \in Records :
        \E cb \in Answers(PlyOf(r.move), "before") :
            \E ca \in Answers(PlyOf(r.move), "after") :
                /\ ca.pos = Append(cb.pos, r.move)
                /\ r.eval_before = cb.score
                /\ r.eval_after = -ca.score

\* a black player's record with a non-zero score on both sides of the move
C5_Witness ==
    /\ player_color = "black"
    /\ \E r \in Records : r.eval_before = 1 /\ r.eval_after = -200

\* C6: every record, in move_evaluations and in every list, has
\* eval_change = eval_after - eval_before.
C6_EvalChange ==
    \A r \in Records \cup Missed
             \cup Range(tactical_data.blunders)
             \cup Range(tactical_data.mistakes)
             \cup Range(tactical_data.inaccuracies)
             \cup Range(tactical_data.good_moves) :
        r.eval_change = r.eval_after - r.eval_before

\* a record whose two scores differ in sign and size
C6_Witness ==
    \E r \in Records :
        r.eval_before = 1 /\ r.eval_after = -200 /\ r.eval_change = -201

\* C7: a record is in blunders iff eval_change <= -200, in mistakes iff
\* -200 < eval_change <= -100, in inaccuracies iff -100 < eval_change <= -50,
\* in good_moves iff eval_change >= 50, and in none of them otherwise.
C7_Cascade ==
    \A r \in Records :
        LET ec == r.eval_change IN
        /\ (r \in Range(tactical_data.blunders)) <=> (ec <= -BLUNDER_THRESHOLD)
        /\ (r \in Range(tactical_data.mistakes)) <=>
               (ec > -BLUNDER_THRESHOLD /\ ec <= -MISTAKE_THRESHOLD)
        /\ (r \in Range(tactical_data.inaccuracies)) <=>
               (ec > -MISTAKE_THRESHOLD /\ ec <= -INACCURACY_THRESHOLD)
        /\ (r \in Range(tactical_data.good_moves)) <=>
               (ec > -INACCURACY_THRESHOLD /\ ec >= GOOD_MOVE_GAIN)

\* two boundary values labelled in one game: -100 a mistake, +50 a good move
C7_Witness ==
    /\ \E r \in Range(tactical_data.mistakes) : r.eval_change = -MISTAKE_THRESHOLD
    /\ \E r \in Range(tactical_data.good_moves) : r.eval_change = GOOD_MOVE_GAIN

\* C8: an entry of missed_tactics has a best move other than the move played,
\* an answered evaluation of the position reached by that best move, and
\* missed_opportunity = (negated alternative score) - eval_after >= 100; and a
\* record whose answered alternative leaves a gap of at least 100 is flagged.
C8_MissedTactic ==
    /\ \A m \in Missed :
        /\ m.best_move # "None"
        /\ m.best_move # m.move
        /\ \E cb \in Answers(PlyOf(m.move), "before") :
            \E c \in Answers(PlyOf(m.move), "alt") :
                /\ c.pos = Append(cb.pos, m.best_move)
                /\ m.missed_eval = -c.score
                /\ m.missed_opportunity = (-c.score) - m.eval_after
        /\ m.missed_opportunity >= MISSED_TACTIC_GAP
    /\ \A r \in Records :
        \A c \in Answers(PlyOf(r.move), "alt") :
            ((-c.score) - r.eval_after >= MISSED_TACTIC_GAP)
                => \E m \in Missed : m.move = r.move

\* one game with a gap of exactly 100 flagged and a gap of 99 not flagged
C8_Witness ==
    /\ \E m \in Missed : m.missed_opportunity = MISSED_TACTIC_GAP
    /\ \E r \in Records :
        /\ \E c \in Answers(PlyOf(r.move), "alt") :
            (-c.score) - r.eval_after = MISSED_TACTIC_GAP - 1
        /\ \A m \in Missed : m.move # r.move

\* C9: the step that evaluates the alternative leaves move_evaluations and
\* the four quality lists as they are, and appends the move to missed_tactics
\* exactly when the gap reaches 100, whatever label the move has.
C9_Orthogonal ==
    [][ (pc = "alt" /\ pc' = "loop" /\ calls'[Len(calls')].ok) =>
          /\ tactical_data'.move_evaluations = tactical_data.move_evaluations
          /\ tactical_data'.blunders = tactical_data.blunders
          /\ tactical_data'.mistakes = tactical_data.mistakes
          /\ tactical_data'.inaccuracies = tactical_data.inaccuracies
          /\ tactical_data'.good_moves = tactical_data.good_moves
          /\ LET gap == (-calls'[Len(calls')].score) - CurrentRecord.eval_after IN
             IF gap >= MISSED_TACTIC_GAP
             THEN /\ Len(tactical_data'.missed_tactics) = Len(tactical_data.missed_tactics) + 1
                  /\ \E m \in Range(tactical_data'.missed_tactics) :
                        m.move = CurrentRecord.move /\ m.missed_opportunity = gap
             ELSE tactical_data'.missed_tactics = tactical_data.missed_tactics
      ]_vars

\* one game in which a blunder and a good move are both missed tactics
C9_Witness ==
    /\ \E r \in Range(tactical_data.blunders) : \E m \in Missed : m.move = r.move
    /\ \E r \in Range(tactical_data.good_moves) : \E m \in Missed : m.move = r.move

\* C10: the accuracy of a returned result with at least one record lies in
\* the closed interval [0, 100].
C10_AccuracyRange ==
    (pc = "done" /\ ret.kind = "data" /\ ret.data.move_evaluations # <<>>) =>
        LET a == ret.summary.accuracy IN
        /\ a.den > 0
        /\ 0 <= a.num
        /\ a.num <= 100 * a.den

\* a returned result whose loss (a mate score) takes the formula below zero
C10_Witness ==
    /\ pc = "done"
    /\ ret.kind = "data"
    /\ \E r \in Range(ret.data.move_evaluations) : r.eval_change <= -MATE_SCORE
    /\ ret.summary.accuracy.num = 0

\* the eval_change values of a record sequence
ChangesOf(evals) == [i \in 1..Len(evals) |-> evals[i].eval_change]

\* the sum of |c| over the negative entries of a sequence of changes
LossOf(changes) ==
    LET RECURSIVE Upto(_)
        Upto(i) == IF i = 0 THEN 0
                   ELSE Upto(i - 1) + (IF changes[i] < 0 THEN -changes[i] ELSE 0)
    IN Upto(Len(changes))

Clamp(x, lo, hi) == IF x < lo THEN lo ELSE IF x > hi THEN hi ELSE x

Example == <<60, -60, 10, -220, 5>>

\* C11: for n >= 1 evaluated moves the accuracy is
\* clamp(100 - (L / n) / 10, 0, 100), L the summed size of the negative
\* changes and n the number of all moves; <<60, -60, 10, -220, 5>> gives 94.4.
C11_AccuracyFormula ==
    (pc = "folded" /\ ret.data.move_evaluations # <<>>) =>
        LET changes == ChangesOf(ret.data.move_evaluations)
            n == Len(changes)
            a == ret.summary.accuracy
        IN /\ a.den > 0
           /\ a.num * (10 * n) = a.den * Clamp(1000 * n - LossOf(changes), 0, 1000 * n)
           /\ changes = Example => a.num * 10 = 944 * a.den

\* the worked example, folded and summarized
C11_Witness ==
    /\ pc = "folded"
    /\ ChangesOf(ret.data.move_evaluations) = Example
    /\ ret.summary.accuracy = [num |-> 4720, den |-> 50]

\* C12: when every evaluated move has eval_change >= the good-move threshold
\* and there is at least one move, the accuracy is exactly 100.
C12_AllGoodIsPerfect ==
    ( /\ pc = "folded"
      /\ ret.data.move_evaluations # <<>>
      /\ \A r \in Range(ret.data.move_evaluations) :
            r.eval_change >= config.good_move_threshold )
    => ret.summary.accuracy.num = 100 * ret.summary.accuracy.den

\* three good moves and nothing else
C12_Witness ==
    /\ pc = "folded"
    /\ Len(ret.data.move_evaluations) = 3
    /\ \A r \in Range(ret.data.move_evaluations) :
            r.eval_change >= config.good_move_threshold
    /\ ret.data.good_moves = ret.data.move_evaluations

\* how often a record occurs in a list
Occurrences(list, r) == Cardinality({i \in 1..Len(list) : list[i] = r})

\* the label the thresholds give a change
LabelOf(ec) ==
    IF ec <= -BLUNDER_THRESHOLD THEN "blunder"
    ELSE IF ec <= -MISTAKE_THRESHOLD THEN "mistake"
    ELSE IF ec <= -INACCURACY_THRESHOLD THEN "inaccuracy"
    ELSE IF ec >= GOOD_MOVE_GAIN THEN "good"
    ELSE "neutral"

Labelled(evals, label) ==
    Cardinality({i \in 1..Len(evals) : LabelOf(evals[i].eval_change) = label})

\* C13: the summary counts are the numbers of records with each label and
\* of flagged records, no record is in two quality lists, the four counts
\* and the neutral moves add up to the number of records, and
\* <<60, -60, 10, -220, 5>> gives good 1, inaccuracy 1, blunder 1, mistake 0,
\* neutral 2.
C13_SummaryCounts ==
    pc = "folded" =>
        LET evals == ret.data.move_evaluations
            sm == ret.summary
        IN /\ sm.total_blunders = Labelled(evals, "blunder")
           /\ sm.total_mistakes = Labelled(evals, "mistake")
           /\ sm.total_inaccuracies = Labelled(evals, "inaccuracy")
           /\ sm.total_good_moves = Labelled(evals, "good")
           /\ sm.total_missed_tactics =
                Cardinality({i \in 1..Len(evals) :
                    \E m \in Range(ret.data.missed_tactics) :
                        m.move_number = evals[i].move_number})
           /\ \A r \in Range(evals) :
                Occurrences(ret.data.blunders, r) + Occurrences(ret.data.mistakes, r)
                + Occurrences(ret.data.inaccuracies, r)
                + Occurrences(ret.data.good_moves, r) <= 1
           /\ sm.total_blunders + sm.total_mistakes + sm.total_inaccuracies
                + sm.total_good_moves + Labelled(evals, "neutral") = Len(evals)
           /\ ChangesOf(evals) = Example =>
                /\ sm.total_good_moves = 1
                /\ sm.total_inaccuracies = 1
                /\ sm.total_blunders = 1
                /\ sm.total_mistakes = 0
                /\ Labelled(evals, "neutral") = 2

\* the worked example with one of its moves flagged as a missed tactic
C13_Witness ==
    /\ pc = "folded"
    /\ ChangesOf(ret.data.move_evaluations) = Example
    /\ ret.summary.total_blunders = 1
    /\ ret.summary.total_missed_tactics = 1

\* the label the reference classifier gives with a configuration
ConfiguredLabel(cfg, ec) ==
    IF ec <= -cfg.blunder_threshold THEN "blunder"
    ELSE IF ec <= -cfg.mistake_threshold THEN "mistake"
    ELSE IF ec <= -cfg.inaccuracy_threshold THEN "inaccuracy"
    ELSE IF ec >= cfg.good_move_threshold THEN "good"
    ELSE "neutral"

\* the quality list a record is filed in
FiledAs(td, r) ==
    IF r \in Range(td.blunders) THEN "blunder"
    ELSE IF r \in Range(td.mistakes) THEN "mistake"
    ELSE IF r \in Range(td.inaccuracies) THEN "inaccuracy"
    ELSE IF r \in Range(td.good_moves) THEN "good"
    ELSE "neutral"

\* C16: under every configuration of the five thresholds a record is filed
\* under the label the reference classifier gives with the configured values,
\* and a move is flagged as a missed tactic only when its gap reaches the
\* configured missed_tactic_threshold.
C16_ThresholdsConfigured ==
    /\ \A r \in Records :
        FiledAs(tactical_data, r) = ConfiguredLabel(config, r.eval_change)
    /\ \A m \in Missed :
        m.missed_opportunity >= config.missed_tactic_threshold

\* what the client saw before its i-th operation
Before(i) ==
    IF i = 1
    THEN [engine |-> 0, opens |-> 0, closes |-> 0, requests |-> 0]
    ELSE [engine |-> ops[i - 1].engine, opens |-> ops[i - 1].opens,
          closes |-> ops[i - 1].closes, requests |-> ops[i - 1].requests]

\* C14: every close ends without error and with no session held; a close
\* made while no session is held (a second close, or a close before any
\* open) quits nothing and changes nothing, and no session is quit twice.
C14_CloseIdempotent ==
    /\ closes <= opens
    /\ \A i \in 1..Len(ops) :
        ops[i].op = "close" =>
            /\ ops[i].engine = 0
            /\ ops[i].outcome = (IF ops[i].held # 0 THEN "quit" ELSE "nothing")
            /\ ops[i].closes = Before(i).closes + (IF ops[i].held # 0 THEN 1 ELSE 0)
            /\ ops[i].opens = Before(i).opens
            /\ ops[i].requests = Before(i).requests
            /\ (i > 1 /\ ops[i - 1].op = "close") =>
                /\ ops[i].outcome = "nothing"
                /\ ops[i].engine = ops[i - 1].engine
                /\ ops[i].closes = ops[i - 1].closes

\* a session opened, closed, and closed again
C14_Witness ==
    \E i \in 1..Len(ops) :
        /\ i > 2
        /\ ops[i - 2].op = "open" /\ ops[i - 2].outcome = "started"
        /\ ops[i - 1].op = "close" /\ ops[i - 1].outcome = "quit"
        /\ ops[i].op = "close" /\ ops[i].outcome = "nothing"

\* an evaluation requested after a close, with no open in between
AfterClose(i) ==
    /\ ops[i].op = "evaluate"
    /\ ops[i].held = 0
    /\ \E j \in 1..(i - 1) : ops[j].op = "close" /\ ops[j].outcome = "quit"

\* C15 as stated: an evaluation requested after the session was closed ends
\* in EngineUnavailable.
C15_EvaluateAfterCloseFails ==
    \A i \in 1..Len(ops) : AfterClose(i) => ops[i].outcome = "EngineUnavailable"

\* C15 amended: an evaluation requested while no session is held is skipped:
\* nothing is raised, no request reaches an engine, and no session is opened
\* by it.
C15_EvaluateAfterCloseSkipped ==
    \A i \in 1..Len(ops) :
        (ops[i].op = "evaluate" /\ ops[i].held = 0) =>
            /\ ops[i].outcome = "skipped"
            /\ ops[i].requests = Before(i).requests
            /\ ops[i].engine = 0
            /\ ops[i].opens = Before(i).opens
            /\ ops[i].closes = Before(i).closes

\* a session opened, used, closed, and an evaluation requested afterwards
C15_Witness ==
    \E i \in 1..Len(ops) :
        /\ AfterClose(i)
        /\ ops[i].outcome = "skipped"
        /\ ops[i].requests = 1

\* the games reported at a stage of the batch
Reported(stage) ==
    {batch.warnings[k].game :
        k \in {j \in 1..Len(batch.warnings) : batch.warnings[j].stage = stage}}

\* the games a batch gave up on
Skipped == Reported("parse") \cup Reported("analysis")

Returned == {batch.analyzed_games[k].game : k \in 1..Len(batch.analyzed_games)}

Increasing(seq, f(_)) ==
    \A a, b \in 1..Len(seq) : a < b => f(seq[a]) < f(seq[b])

GameOf(entry) == entry.game

Self(x) == x

\* C17: a batch takes its games in input order, one per turn; a game that
\* does not parse or whose analysis comes back empty is reported, left out,
\* and the next game is taken; no turn ends the batch early, the results are
\* in input order and carry data, and results plus skipped games are all N.
C17_BatchSkipsBadGames ==
    pc = "batch" =>
        /\ Increasing(batch.parsed_games, Self)
        /\ Increasing(batch.analyzed_games, GameOf)
        /\ Increasing(batch.warnings, GameOf) \/ batch.phase # "parse"
        /\ \A k \in 1..Len(batch.analyzed_games) :
            /\ batch.analyzed_games[k].tactical_analysis.kind = "data"
            /\ batch.games_data[batch.analyzed_games[k].game] = "good"
        /\ Returned \cap Skipped = {}
        /\ batch.phase = "parse" =>
            Range(batch.parsed_games) \cup Reported("parse") = 1..(batch.i - 1)
        /\ batch.phase # "parse" =>
            /\ Range(batch.parsed_games) =
                {g \in DOMAIN batch.games_data : batch.games_data[g] = "good"}
            /\ Range(batch.parsed_games) \cup Reported("parse") =
                DOMAIN batch.games_data
        /\ batch.phase = "analyze" =>
            Returned \cup Reported("analysis") =
                {batch.parsed_games[k] : k \in 1..(batch.i - 1)}
        /\ batch.phase = "done" =>
            /\ Returned \cup Skipped = DOMAIN batch.games_data
            /\ Len(batch.analyzed_games) + Cardinality(Skipped) =
                Len(batch.games_data)

\* a finished batch in which a bad game and an empty analysis lie before a
\* game that was returned
C17_Witness ==
    /\ pc = "batch"
    /\ batch.phase = "done"
    /\ \E a, b, c \in DOMAIN batch.games_data :
        /\ a < c /\ b < c
        /\ a \in Reported("parse")
        /\ b \in Reported("analysis")
        /\ c \in Returned

\* the sessions a thread opened
OpenedBy(t) ==
    {calls[k].session :
        k \in {j \in 1..Len(calls) :
                  calls[j].kind = "open" /\ calls[j].thread = t}}

\* C18: of two analyses running at once on one TacticalAnalyzer, each sends
\* its evaluations only to a session it opened itself, and each quits only a
\* session it opened itself.
C18_SessionsIndependent ==
    pc = "threads" =>
        \A k \in 1..Len(calls) :
            calls[k].kind \in {"evaluate", "quit"} =>
                calls[k].session \in OpenedBy(calls[k].thread)

\* C19: analyze_game_tactics returns in the end, also when the engine leaves
\* an evaluation request unanswered.
C19_EventuallyReturns == <>(pc = "done")

\* C20: when an analysis is cancelled during the walk, the session is closed
\* by the time control leaves analyze_game_tactics, and the caller gets no
\* result at all: records are handed back only together with their summary.
C20_CancelClosesAndDiscards ==
    pc = "done" =>
        /\ engine = 0
        /\ closes = opens
        /\ ret.kind \in {"raised", "empty", "data"}
        /\ ret.kind = "raised" => DOMAIN ret = {"kind"}
        /\ ret.kind = "data" => "summary" \in DOMAIN ret

\* an analysis cancelled after a session was opened and a move was recorded
C20_Witness ==
    /\ pc = "done"
    /\ ret.kind = "raised"
    /\ opens = 1
    /\ closes = 1
    /\ tactical_data.move_evaluations # <<>>

\* the move numbers of all blunders handed to the pattern analysis
RECURSIVE AllBlunders(_)
AllBlunders(games) ==
    IF games = <<>> THEN <<>>
    ELSE LET t == Head(games).tactical_analysis IN
         (IF t.kind = "data" THEN t.blunders ELSE <<>>) \o AllBlunders(Tail(games))

HowMany(seq, Test(_)) == Cardinality({k \in 1..Len(seq) : Test(seq[k])})

InOpening(n) == n <= OPENING_LAST
InEndgame(n) == n >= ENDGAME_FIRST
InMiddlegame(n) == ~InOpening(n) /\ ~InEndgame(n)
AnyMove(n) == TRUE

\* the count reported for a phase, 0 when none is reported
Reports(phase) ==
    IF phase \in DOMAIN ret THEN GetBlunders(ret[phase]) ELSE 0

C22_NumberIsPly ==
    \A r \in Records : r.move_number = PlyOf(r.move) + 1

\* C22 amended: the record of the move at 0-based position i carries the
\* full-move number i div 2 + 1, for white and for black: a white move and
\* the black reply to it have the same number.
C22_NumberIsFullMove ==
    \A r \in Records : r.move_number = (PlyOf(r.move) \div 2) + 1

\* a record of the player's second move
C22_Witness ==
    \E r \in Records :
        /\ PlyOf(r.move) \in {2, 3}
        /\ r.move_number = 2

\* the record a list entry was made from: a missed tactic carries two more
\* fields than its record
SameMove(entry, r) ==
    \A f \in DOMAIN r : f \in DOMAIN entry /\ entry[f] = r[f]

\* C23: move_evaluations is in game order with strictly increasing position,
\* holds only plies of the analyzed player, each at most once, and every
\* entry of the five lists was made from a record of move_evaluations.
C23_RecordsOrdered ==
    LET evals == tactical_data.move_evaluations IN
    /\ \A a, b \in 1..Len(evals) :
        a < b => PlyOf(evals[a].move) < PlyOf(evals[b].move)
    /\ \A r \in Records :
        /\ PlyOf(r.move) < total_moves
        /\ PlyOf(r.move) % 2 = (IF player_color = "white" THEN 0 ELSE 1)
    /\ \A e \in Range(tactical_data.blunders) \cup Range(tactical_data.mistakes)
              \cup Range(tactical_data.inaccuracies)
              \cup Range(tactical_data.good_moves) : e \in Records
    /\ \A m \in Missed : \E r \in Records : SameMove(m, r)
    /\ (pc = "done" /\ ret.kind = "data") => ret.data = tactical_data

\* a returned result with two records, one of them filed in a list and one
\* of them a missed tactic
C23_Witness ==
    /\ pc = "done"
    /\ ret.kind = "data"
    /\ Len(ret.data.move_evaluations) = 2
    /\ ret.data.missed_tactics # <<>>
    /\ ret.data.blunders # <<>> \/ ret.data.good_moves # <<>>

\* the plies the walker has gone past
Walked == 0..(move_num - 1)

C25_OpponentPlyOnlyPushed ==
    [][ ( /\ pc = "loop"
          /\ move_num < total_moves
          /\ ~(move_num % 2 = (IF player_color = "white" THEN 0 ELSE 1)) )
        => /\ calls' = calls
           /\ tactical_data' = tactical_data
           /\ board' = Append(board, MoveAt(move_num))
           /\ \/ pc' = "loop" /\ move_num' = move_num + 1
              \/ pc' = "finally" /\ ret'.kind = "empty" ]_vars

\* the walker is past an opponent ply and at the player's next one
C25_Witness ==
    /\ pc = "before"
    /\ move_num = 2
    /\ player_color = "white"
    /\ board[Len(board)] = MoveAt(1)
    /\ \A c \in Range(calls) : c.ply # 1

\* the requests made for ply k, oldest first
RequestsFor(k) ==
    LET ForPly(c) == c.ply = k IN SelectSeq(calls, ForPly)

KindsFor(k) == [i \in 1..Len(RequestsFor(k)) |-> RequestsFor(k)[i].kind]

IsPrefix(s, t) == Len(s) <= Len(t) /\ \A i \in 1..Len(s) : s[i] = t[i]

\* C26 as stated: a ply's evaluations are the pre-move one, the post-move one
\* and the optional alternative, in this order and no other, and the record
\* is not appended before the alternative evaluation has finished.
C26_RecordAfterAlternative ==
    /\ \A k \in 0..(MaxMoves - 1) :
        IsPrefix(KindsFor(k), <<"before", "after", "alt">>)
    /\ pc = "alt" => ~HasRecord(tactical_data.move_evaluations, move_num)

\* C26 amended: a ply's requests are, in this order, the pre-move evaluation,
\* (the move is pushed,) the post-move evaluation, a second request on the
\* pre-move position for the best move, and the optional alternative; only
\* the last request made can have failed; the record is appended and filed
\* after the third request and before the alternative is asked for; plies
\* are taken in one pass, and a result with data is returned only when the
\* moves are exhausted.
C26_StepOrderAsCoded ==
    /\ \A k \in 0..(MaxMoves - 1) :
        LET asked == RequestsFor(k) IN
        /\ IsPrefix(KindsFor(k), <<"before", "after", "best", "alt">>)
        /\ \A i \in 1..(Len(asked) - 1) : asked[i].ok
        /\ Len(asked) >= 2 => asked[2].pos = Append(asked[1].pos, MoveAt(k))
        /\ Len(asked) >= 3 => asked[3].pos = asked[1].pos
        /\ HasRecord(tactical_data.move_evaluations, k) =>
              (Len(asked) >= 3 /\ asked[3].ok)
        /\ Len(asked) = 4 => HasRecord(tactical_data.move_evaluations, k)
    /\ pc = "alt" => HasRecord(tactical_data.move_evaluations, move_num)
    /\ \A a, b \in 1..Len(calls) : a < b => calls[a].ply <= calls[b].ply
    /\ (pc = "done" /\ ret.kind = "data") => move_num = total_moves

\* a finished walk in which a ply went through all four requests
C26_Witness ==
    /\ pc = "done"
    /\ ret.kind = "data"
    /\ \E k \in 0..(MaxMoves - 1) :
        /\ Len(RequestsFor(k)) = 4
        /\ RequestsFor(k)[4].ok

\* C27: the step that evaluates the best alternative leaves the main board
\* and the saved pre-move position as they were, so the ply ends with the
\* main board being the pre-move position plus the move played.
C27_AlternativeOnCopy ==
    [][ (pc = "alt" /\ pc' = "loop")
        => /\ position_before' = position_before
           /\ board' = board
           /\ board' = Append(position_before, MoveAt(move_num)) ]_vars

\* C28: between plies the main board holds exactly the game moves walked so
\* far, each once and in order, whichever step of a ply failed.
C28_BoardIsMainline ==
    pc = "loop" => board = Mainline(move_num)

\* C29: a call on a parsed game, with a session opened, that evaluated no
\* move at all returns a filled result whose five counts are 0 and whose
\* accuracy is 0.
C29_NothingEvaluated ==
    ( /\ pc = "done"
      /\ pgn_ok
      /\ opens > 0
      /\ tactical_data.move_evaluations = <<>> )
    => /\ ret.kind = "data"
       /\ ret.summary.total_blunders = 0
       /\ ret.summary.total_mistakes = 0
       /\ ret.summary.total_inaccuracies = 0
       /\ ret.summary.total_good_moves = 0
       /\ ret.summary.total_missed_tactics = 0
       /\ ret.summary.accuracy.num = 0

LastResponse == request.responses[Len(request.responses)]

\* C30: without a valid cache entry a request makes at most max_retries + 1
\* attempts; a 200 ends it with the data and a 404 with None, at once; when
\* every attempt was answered with 429 it ends after the last attempt by
\* raising RateLimitError, and other exhausted failures raise APIError.
C30_RateLimitedRaisesRateLimitError ==
    (pc = "requested" /\ ~request.cached) =>
        /\ Len(request.responses) \in 1..(request.max_retries + 1)
        /\ \A i \in 1..(Len(request.responses) - 1) :
            request.responses[i] \notin {"200", "404"}
        /\ LastResponse = "200" <=> ret.kind = "json"
        /\ LastResponse = "404" <=> ret.kind = "null"
        /\ (\A i \in 1..Len(request.responses) : request.responses[i] = "429") =>
            /\ Len(request.responses) = request.max_retries + 1
            /\ ret.kind = "raised"
            /\ ret.error = "RateLimitError"
        /\ ( /\ ret.kind = "raised"
             /\ \E i \in 1..Len(request.responses) : request.responses[i] # "429"
             /\ LastResponse # "401" )
           => /\ ret.error = "APIError"
              /\ Len(request.responses) = request.max_retries + 1

====
